---------------------------- MODULE Spec2Model ----------------------------
(***************************************************************************)
(* A model of rusty_merkle_tree (src/merkle_tree/src/merkle_tree.rs).      *)
(*                                                                         *)
(* A MerkleTree owns one field, leaves: Vec<[u8;32]>.  The model keeps a   *)
(* small family of tree slots (TreeIds), the values a caller obtained from *)
(* the public methods (root, held, last), and a flag that records whether  *)
(* a call aborted with a panic.                                            *)
(*                                                                         *)
(* Digests.  Keccak-256 is modelled as a collision-free function on byte   *)
(* strings: a byte string is a sequence of tokens, an item's bytes are the *)
(* one-token sequence <<item>>, and calculate_hash prepends the token "H". *)
(* A digest is therefore the prefix code of a hash term                    *)
(*      T ::= "H" item  |  "H" T T                                         *)
(* which can be split in one way only, as the concatenation of two 32-byte *)
(* digests can.                                                            *)
(***************************************************************************)
EXTENDS Integers, Sequences, FiniteSets, TLC

\* Largest Leaf Store the single-tree specification builds.
MaxLeaves == 5
\* Largest Leaf Store the two-tree specification builds.
PairMaxLeaves == 4
\* Largest item vector handed to build_from or add_leaves.
MaxBatch == 2

\* The items (the strings of the repository's tests).
Items == {"foo", "bar", "hello"}
\* The items of the two-tree specification.
PairItems == {"foo", "bar"}
\* The tree slots: slot 1 is the tree of Spec, slots 1 and 2 those of SpecPair.
TreeIds == {1, 2}

VARIABLES
    built,      \* built[t]: build_from returned Ok for slot t
    leaves,     \* leaves[t]: the field MerkleTree.leaves of slot t
    all_items,  \* all_items[t]: every item handed to slot t so far, in order
    root,       \* root[t]: what get_root returned since the last append, or NoDigest
    held,       \* the Option<(proof, index)> the last contains_leaf returned
    last,       \* the last call: its name, arguments and return value
    panicked    \* a call aborted (index out of bounds, overflow, stack exhaustion)

vars == <<built, leaves, all_items, root, held, last, panicked>>

NoDigest == <<>>
NoHeld == [some |-> FALSE, t |-> 0, proof |-> <<>>, index |-> 0,
           leaf_hash |-> NoDigest, count |-> 0]

SeqsUpTo(S, n) == UNION {[1..k -> S] : k \in 0..n}

---------------------------------------------------------------------------
(* Pure functions of merkle_tree.rs *)

\* String::as_bytes
as_bytes(elem) == <<elem>>

\* [a, b].concat()
concat(a, b) == a \o b

\* calculate_hash: Keccak-256 of the input, collision-free
calculate_hash(input) == <<"H">> \o input

\* usize & usize
RECURSIVE BitAnd(_, _)
BitAnd(a, b) ==
    IF a = 0 \/ b = 0 THEN 0
    ELSE (a % 2) * (b % 2) + 2 * BitAnd(a \div 2, b \div 2)

\* get_leaves: the digest of every element, in order
get_leaves(array) == [i \in 1..Len(array) |-> calculate_hash(as_bytes(array[i]))]

\* the while loop of resize_leaves: push a copy of the current last element
\* until the length is a power of two
RECURSIVE resize_loop(_)
resize_loop(resized_leaves) ==
    LET len == Len(resized_leaves)
    IN  IF BitAnd(len, len - 1) # 0
        THEN resize_loop(Append(resized_leaves, resized_leaves[len]))
        ELSE resized_leaves

\* resize_leaves on an empty vector: len - 1 overflows (a panic where overflow
\* is checked; where it wraps, 0 & MAX = 0 and the empty vector is returned)
resize_leaves_panics(lvs) == Len(lvs) = 0

resize_leaves_noPad(lvs) == lvs

resize_leaves_padFirst(lvs) ==
    IF Len(lvs) = 0 THEN lvs
    ELSE LET RECURSIVE loop(_)
             loop(r) == IF BitAnd(Len(r), Len(r) - 1) # 0
                        THEN loop(Append(r, r[1])) ELSE r
         IN  loop(lvs)

resize_leaves(lvs) == IF Len(lvs) = 0 THEN lvs ELSE resize_loop(lvs)

\* the parents array both calculate_root and generate_proof build:
\* one hash per chunk of 2 (a chunk of 1 aborts the call, see *_panics)
parents_array(array) ==
    [k \in 1..(Len(array) \div 2) |->
        calculate_hash(concat(array[2 * k - 1], array[2 * k]))]

RECURSIVE calculate_root_panics(_)
calculate_root_panics(array) ==
    IF Len(array) = 1 THEN FALSE
    ELSE IF Len(array) = 0 THEN TRUE      \* recursion never ends: stack exhaustion
    ELSE IF Len(array) % 2 = 1 THEN TRUE  \* chunk[1] of the last chunk
    ELSE calculate_root_panics(parents_array(array))

RECURSIVE calculate_root_leftOnly(_)
calculate_root_leftOnly(array) ==
    IF Len(array) <= 1 THEN (IF Len(array) = 1 THEN array[1] ELSE NoDigest)
    ELSE calculate_root_leftOnly(
            [k \in 1..(Len(array) \div 2) |->
                calculate_hash(concat(array[2 * k - 1], array[2 * k - 1]))])

RECURSIVE calculate_root(_)
calculate_root(array) ==
    IF Len(array) = 1 THEN array[1]
    ELSE calculate_root(parents_array(array))

RECURSIVE generate_proof_panics(_, _)
generate_proof_panics(leaf_index, level) ==
    IF Len(level) = 1 THEN FALSE
    ELSE LET sibling_index == IF leaf_index % 2 = 0 THEN leaf_index + 1
                              ELSE leaf_index - 1
         IN  IF sibling_index >= Len(level) THEN TRUE   \* leaves[sibling_index]
             ELSE IF Len(level) % 2 = 1 THEN TRUE       \* chunk[1]
             ELSE generate_proof_panics(leaf_index \div 2, parents_array(level))

RECURSIVE generate_proof(_, _, _)
generate_proof(leaf_index, level, proof) ==
    IF Len(level) = 1 THEN proof
    ELSE LET sibling_index == IF leaf_index % 2 = 0 THEN leaf_index + 1
                              ELSE leaf_index - 1
         IN  generate_proof(leaf_index \div 2, parents_array(level),
                            Append(proof, level[sibling_index + 1]))

RECURSIVE verify_swapped(_, _, _, _)
verify_swapped(proof, rt, leaf_hash, leaf_index) ==
    IF proof = <<>> THEN leaf_hash = rt
    ELSE verify_swapped(Tail(proof), rt,
            IF leaf_index % 2 = 1
            THEN calculate_hash(concat(leaf_hash, Head(proof)))
            ELSE calculate_hash(concat(Head(proof), leaf_hash)),
            leaf_index \div 2)

RECURSIVE verify(_, _, _, _)
verify(proof, rt, leaf_hash, leaf_index) ==
    IF proof = <<>> THEN leaf_hash = rt
    ELSE verify(Tail(proof), rt,
            IF leaf_index % 2 = 0
            THEN calculate_hash(concat(leaf_hash, Head(proof)))
            ELSE calculate_hash(concat(Head(proof), leaf_hash)),
            leaf_index \div 2)

build_from_unchecked(array) ==
    [ok |-> TRUE, err |-> "none", leaves |-> get_leaves(array)]

\* build_from: Err(CreationError::Empty) or Ok(MerkleTree { leaves })
build_from(array) ==
    IF array = <<>>
    THEN [ok |-> FALSE, err |-> "Empty", leaves |-> <<>>]
    ELSE [ok |-> TRUE, err |-> "none", leaves |-> get_leaves(array)]

get_root_panics(lvs) ==
    resize_leaves_panics(lvs) \/ calculate_root_panics(resize_leaves(lvs))

get_root(lvs) == calculate_root(resize_leaves(lvs))

count_leaves(lvs) == Len(lvs)

add_leaves_prepend(lvs, new_leaves) == get_leaves(new_leaves) \o lvs

\* add_leaves: self.leaves after self.leaves.extend(get_leaves(new_leaves))
add_leaves(lvs, new_leaves) == lvs \o get_leaves(new_leaves)

\* self.leaves.iter().position(|x| *x == leaf_hash), as a 0-based index or -1
position(lvs, leaf_hash) ==
    IF \E i \in 1..Len(lvs) : lvs[i] = leaf_hash
    THEN (CHOOSE i \in 1..Len(lvs) :
            /\ lvs[i] = leaf_hash
            /\ \A j \in 1..(i - 1) : lvs[j] # leaf_hash) - 1
    ELSE -1

contains_leaf_panics(lvs, leaf_hash) ==
    /\ position(lvs, leaf_hash) >= 0
    /\ \/ resize_leaves_panics(lvs)
       \/ generate_proof_panics(position(lvs, leaf_hash), resize_leaves(lvs))

contains_leaf_last(lvs, leaf_hash) ==
    IF \E i \in 1..Len(lvs) : lvs[i] = leaf_hash
    THEN LET index == (CHOOSE i \in 1..Len(lvs) :
                         /\ lvs[i] = leaf_hash
                         /\ \A j \in (i + 1)..Len(lvs) : lvs[j] # leaf_hash) - 1
         IN  [some |-> TRUE,
              proof |-> generate_proof(index, resize_leaves(lvs), <<>>),
              index |-> index]
    ELSE [some |-> FALSE, proof |-> <<>>, index |-> 0]

\* contains_leaf: Some((proof, index)) or None
contains_leaf(lvs, leaf_hash) ==
    LET index == position(lvs, leaf_hash)
    IN  IF index >= 0
        THEN [some |-> TRUE,
              proof |-> generate_proof(index, resize_leaves(lvs), <<>>),
              index |-> index]
        ELSE [some |-> FALSE, proof |-> <<>>, index |-> 0]

contains_leaf_keepsPadding(lvs, leaf_hash) ==
    IF position(lvs, leaf_hash) >= 0 THEN resize_leaves(lvs) ELSE lvs

\* self.leaves after contains_leaf(&mut self, ..): the method assigns nothing
contains_leaf_self(lvs, leaf_hash) == lvs

---------------------------------------------------------------------------
(* The state machine *)

Init ==
    /\ built = [t \in TreeIds |-> FALSE]
    /\ leaves = [t \in TreeIds |-> <<>>]
    /\ all_items = [t \in TreeIds |-> <<>>]
    /\ root = [t \in TreeIds |-> NoDigest]
    /\ held = NoHeld
    /\ last = [op |-> "none", t |-> 0, err |-> "none"]
    /\ panicked = FALSE

\* let tree = MerkleTree::build_from(array)
BuildFrom(t, array) ==
    /\ ~panicked
    /\ ~built[t]
    /\ LET r == build_from(array)
       IN  /\ built' = [built EXCEPT ![t] = r.ok]
           /\ leaves' = [leaves EXCEPT ![t] = r.leaves]
           /\ all_items' = [all_items EXCEPT ![t] = IF r.ok THEN array ELSE <<>>]
           /\ last' = [op |-> "build_from", t |-> t, err |-> r.err, items |-> array]
    /\ UNCHANGED <<root, held, panicked>>

\* tree.add_leaves(new_leaves)
AddLeaves(t, new_leaves, max) ==
    /\ ~panicked
    /\ built[t]
    /\ Len(leaves[t]) + Len(new_leaves) <= max
    /\ leaves' = [leaves EXCEPT ![t] = add_leaves(leaves[t], new_leaves)]
    /\ all_items' = [all_items EXCEPT ![t] = all_items[t] \o new_leaves]
    /\ root' = [root EXCEPT ![t] = NoDigest]
    /\ last' = [op |-> "add_leaves", t |-> t, err |-> "none",
                items |-> new_leaves, before |-> leaves[t]]
    /\ UNCHANGED <<built, held, panicked>>

\* let root = tree.get_root()
GetRoot(t) ==
    /\ ~panicked
    /\ built[t]
    /\ LET p == get_root_panics(leaves[t])
       IN  /\ panicked' = p
           /\ root' = IF p THEN root ELSE [root EXCEPT ![t] = get_root(leaves[t])]
           /\ last' = [op |-> IF p THEN "panic" ELSE "get_root", t |-> t,
                       err |-> "none"]
    /\ UNCHANGED <<built, leaves, all_items, held>>

\* let n = tree.count_leaves()
CountLeaves(t) ==
    /\ ~panicked
    /\ built[t]
    /\ last' = [op |-> "count_leaves", t |-> t, err |-> "none",
                n |-> count_leaves(leaves[t])]
    /\ UNCHANGED <<built, leaves, all_items, root, held, panicked>>

\* let held = tree.contains_leaf(leaf_hash)
ContainsLeaf(t, leaf_hash) ==
    /\ ~panicked
    /\ built[t]
    /\ LET p == contains_leaf_panics(leaves[t], leaf_hash)
           r == contains_leaf(leaves[t], leaf_hash)
       IN  /\ panicked' = p
           /\ held' = IF p THEN held
                      ELSE IF r.some
                      THEN [some |-> TRUE, t |-> t, proof |-> r.proof,
                            index |-> r.index, leaf_hash |-> leaf_hash,
                            count |-> Len(leaves[t])]
                      ELSE NoHeld
           /\ leaves' = IF p THEN leaves
                        ELSE [leaves EXCEPT
                                ![t] = contains_leaf_self(leaves[t], leaf_hash)]
           /\ last' = [op |-> IF p THEN "panic" ELSE "contains_leaf", t |-> t,
                       err |-> "none", leaf_hash |-> leaf_hash]
    /\ UNCHANGED <<built, all_items, root>>

\* MerkleTree::verify(proof, root, leaf_hash, leaf_index)
Verify(proof, rt, leaf_hash, leaf_index) ==
    /\ ~panicked
    /\ last' = [op |-> "verify", t |-> 0, err |-> "none", proof |-> proof,
                root |-> rt, leaf_hash |-> leaf_hash, leaf_index |-> leaf_index,
                result |-> verify(proof, rt, leaf_hash, leaf_index)]
    /\ UNCHANGED <<built, leaves, all_items, root, held, panicked>>

---------------------------------------------------------------------------
(* The arguments the caller hands to verify *)

\* No leaf was appended since the held proof was generated.
HeldFresh == held.some /\ held.count = Len(leaves[held.t])

\* The digests a caller may substitute: every leaf digest and the root.
Digests == {calculate_hash(as_bytes(x)) : x \in Items} \cup {root[held.t]}

\* The indices a caller may substitute: twice the padded length of them.
Indices == 0..(2 * Len(resize_leaves(leaves[held.t])) - 1)

SameArgs ==
    [proof |-> held.proof, root |-> root[held.t],
     leaf_hash |-> held.leaf_hash, leaf_index |-> held.index]

LeafMutations ==
    {[SameArgs EXCEPT !.leaf_hash = d] : d \in Digests \ {held.leaf_hash}}

IndexMutations ==
    {[SameArgs EXCEPT !.leaf_index = i] : i \in Indices \ {held.index}}

ProofMutations ==
    {[SameArgs EXCEPT !.proof = [held.proof EXCEPT ![k] = d]] :
        k \in 1..Len(held.proof), d \in Digests} \ {SameArgs}

VerifyArgs ==
    IF held.some /\ root[held.t] # NoDigest
    THEN {SameArgs} \cup
         (IF HeldFresh
          THEN LeafMutations \cup IndexMutations \cup ProofMutations
          ELSE {})
    ELSE {}

QueryDigests(t) ==
    {calculate_hash(as_bytes(x)) : x \in Items} \cup ({root[t]} \ {NoDigest})

---------------------------------------------------------------------------
(* Spec: one tree and its caller *)

Next ==
    \/ \E array \in SeqsUpTo(Items, MaxBatch) : BuildFrom(1, array)
    \/ \E new_leaves \in SeqsUpTo(Items, MaxBatch) : AddLeaves(1, new_leaves, MaxLeaves)
    \/ GetRoot(1)
    \/ CountLeaves(1)
    \/ \E d \in QueryDigests(1) : ContainsLeaf(1, d)
    \/ \E a \in VerifyArgs : Verify(a.proof, a.root, a.leaf_hash, a.leaf_index)

Spec == Init /\ [][Next]_vars

(* SpecPair: two trees, built and extended independently *)

NextPair ==
    \/ \E t \in TreeIds, array \in SeqsUpTo(PairItems, MaxBatch) : BuildFrom(t, array)
    \/ \E t \in TreeIds, new_leaves \in SeqsUpTo(PairItems, MaxBatch) :
            AddLeaves(t, new_leaves, PairMaxLeaves)
    \/ \E t \in TreeIds : GetRoot(t)

SpecPair == Init /\ [][NextPair]_vars

---------------------------------------------------------------------------
(* Reference definitions used by the properties *)

RECURSIVE Pow2(_)
Pow2(k) == IF k = 0 THEN 1 ELSE 2 * Pow2(k - 1)

IsPow2(n) == \E k \in 0..n : Pow2(k) = n

\* the smallest power of two that is >= n (n >= 1)
NextPow2(n) ==
    CHOOSE p \in 1..(2 * n) :
        /\ IsPow2(p) /\ p >= n
        /\ \A q \in 1..(p - 1) : ~(IsPow2(q) /\ q >= n)

\* ceil(log2(n)) (n >= 1)
CeilLog2(n) ==
    CHOOSE k \in 0..n : Pow2(k) >= n /\ (k = 0 \/ Pow2(k - 1) < n)

\* the hash of one item, and of a pair of digests, written as terms
RefLeaf(item) == <<"H", item>>
RefNode(left, right) == <<"H">> \o left \o right

\* the Leaf Store right-padded with its final real leaf
PaddedRef(lvs) ==
    [i \in 1..NextPow2(Len(lvs)) |-> IF i <= Len(lvs) THEN lvs[i] ELSE lvs[Len(lvs)]]

\* the digest of the size entries of s that start at lo (size a power of two)
RECURSIVE FoldRef(_, _, _)
FoldRef(s, lo, size) ==
    IF size = 1 THEN s[lo]
    ELSE RefNode(FoldRef(s, lo, size \div 2),
                 FoldRef(s, lo + size \div 2, size \div 2))

\* at every level the index and its sibling are inside the level, whose
\* chunks of 2 are complete
RECURSIVE PathInBounds(_, _)
PathInBounds(i, level) ==
    IF Len(level) = 1 THEN i = 0
    ELSE LET sibling == IF i % 2 = 0 THEN i + 1 ELSE i - 1
         IN  /\ 0 <= i /\ i < Len(level)
             /\ 0 <= sibling /\ sibling < Len(level)
             /\ Len(level) % 2 = 0
             /\ PathInBounds(i \div 2, parents_array(level))

LastArgs ==
    [proof |-> last.proof, root |-> last.root,
     leaf_hash |-> last.leaf_hash, leaf_index |-> last.leaf_index]

\* the held proof was generated before leaves were appended
HeldStale == held.some /\ held.count < Len(leaves[held.t])

---------------------------------------------------------------------------
(* Properties *)

\* C1: in every tree reached by build_from and add_leaves, the proof
\* generated for any index i of the unpadded Leaf Store against the padded
\* sequence verifies against what get_root returns, with leaves[i] and i;
\* so does the (proof, index) that contains_leaf returned.
C1_ProofRoundTrip ==
    /\ \A t \in TreeIds :
          (last.op = "get_root" /\ last.t = t) =>
             \A i \in 0..(Len(leaves[t]) - 1) :
                verify(generate_proof(i, resize_leaves(leaves[t]), <<>>),
                       root[t], leaves[t][i + 1], i)
    /\ (last.op = "verify" /\ HeldFresh /\ LastArgs = SameArgs) => last.result

C1_Witness ==
    /\ last.op = "verify" /\ last.result
    /\ HeldFresh /\ LastArgs = SameArgs
    /\ Len(leaves[1]) = 5 /\ held.index = 4 /\ Len(held.proof) = 3

\* C2: with a (proof, root, leaf_digest, index) produced by contains_leaf
\* and get_root on the same tree, replacing the leaf digest, the index or
\* one proof entry by a different value makes verify return false.
C2_MutationRejected ==
    (last.op = "verify" /\ HeldFresh /\ LastArgs # SameArgs) => ~last.result

\* C3: two trees whose unpadded Leaf Stores differ have different roots.
C3_RootCommits ==
    (/\ built[1] /\ built[2]
     /\ root[1] # NoDigest /\ root[2] # NoDigest
     /\ leaves[1] # leaves[2])
        => root[1] # root[2]

\* C3 (amended): two trees whose padded sequences have the same length and
\* differ, in particular two Leaf Stores of the same length that differ in a
\* digest or in order, have different roots.
C3_RootCommitsPadded ==
    (/\ built[1] /\ built[2]
     /\ root[1] # NoDigest /\ root[2] # NoDigest
     /\ Len(PaddedRef(leaves[1])) = Len(PaddedRef(leaves[2]))
     /\ PaddedRef(leaves[1]) # PaddedRef(leaves[2]))
        => root[1] # root[2]

C3_Witness ==
    /\ built[1] /\ built[2]
    /\ root[1] # NoDigest /\ root[2] # NoDigest
    /\ all_items[1] = <<"foo", "bar", "foo">>
    /\ all_items[2] = <<"foo", "foo", "bar">>
    /\ root[1] # root[2]

\* C4: after build_from(xs) and add_leaves(ys_1) .. add_leaves(ys_k) the
\* Leaf Store is the digests of xs ++ ys_1 ++ .. ++ ys_k in order, each
\* append keeps the earlier entries and raises count_leaves by the number
\* of items, and get_root is the root of a fresh tree built from the
\* concatenated items.
C4_AppendEqualsRebuild ==
    /\ \A t \in TreeIds :
          built[t] =>
             /\ leaves[t] = [i \in 1..Len(all_items[t]) |-> RefLeaf(all_items[t][i])]
             /\ leaves[t] = build_from(all_items[t]).leaves
             /\ (last.op = "get_root" /\ last.t = t) =>
                   root[t] = get_root(build_from(all_items[t]).leaves)
    /\ last.op = "add_leaves" =>
          /\ SubSeq(leaves[last.t], 1, Len(last.before)) = last.before
          /\ count_leaves(leaves[last.t]) = Len(last.before) + Len(last.items)

C4_Witness ==
    /\ last.op = "get_root"
    /\ Len(all_items[1]) = 5
    /\ all_items[1][1] # all_items[1][5]
    /\ root[1] = get_root(build_from(all_items[1]).leaves)

\* C5: get_root is the fold of the Leaf Store right-padded with its final
\* leaf to the next power of two; a single leaf is its own root; three
\* items a, b, c give H(H(H(a)||H(b)) || H(H(c)||H(c))).
C5_RootIsReferenceFold ==
    \A t \in TreeIds :
       (last.op = "get_root" /\ last.t = t) =>
          LET n == Len(leaves[t])
              a == all_items[t]
          IN  /\ resize_leaves(leaves[t]) = PaddedRef(leaves[t])
              /\ root[t] = FoldRef(PaddedRef(leaves[t]), 1, NextPow2(n))
              /\ n = 1 => root[t] = RefLeaf(a[1])
              /\ n = 3 => root[t] =
                    RefNode(RefNode(RefLeaf(a[1]), RefLeaf(a[2])),
                            RefNode(RefLeaf(a[3]), RefLeaf(a[3])))

C5_Witness ==
    /\ last.op = "get_root"
    /\ Len(leaves[1]) = 5
    /\ Len(resize_leaves(leaves[1])) = 8
    /\ root[1] = FoldRef(PaddedRef(leaves[1]), 1, 8)

\* C6: build_from returns Empty exactly when the item vector is empty, and
\* then no tree exists; no other call returns an error; every tree has a
\* non-empty Leaf Store.
C6_EmptyInput ==
    /\ last.op = "build_from" =>
          /\ (last.err = "Empty") <=> (last.items = <<>>)
          /\ (last.err = "Empty") => ~built[last.t]
          /\ (last.err # "Empty") => built[last.t]
    /\ last.err # "none" => last.op = "build_from"
    /\ \A t \in TreeIds : built[t] => Len(leaves[t]) >= 1

C6_Witness ==
    /\ last.op = "build_from" /\ last.items = <<>> /\ last.err = "Empty"
    /\ ~built[1]

\* C7: contains_leaf(d) returns none exactly when d is not in the unpadded
\* Leaf Store; otherwise it returns the first position k of d, k below
\* count_leaves, and a proof of log2(padded length) = ceil(log2(count_leaves))
\* entries.
C7_ContainsLeaf ==
    last.op = "contains_leaf" =>
       LET lvs == leaves[last.t]
           n == Len(lvs)
       IN  /\ held.some <=> \E i \in 1..n : lvs[i] = last.leaf_hash
           /\ held.some =>
                 /\ held.leaf_hash = last.leaf_hash
                 /\ 0 <= held.index /\ held.index < count_leaves(lvs)
                 /\ lvs[held.index + 1] = last.leaf_hash
                 /\ \A j \in 1..held.index : lvs[j] # last.leaf_hash
                 /\ Pow2(Len(held.proof)) = NextPow2(n)
                 /\ Len(held.proof) = CeilLog2(n)
                 /\ n = 1 => held.proof = <<>>

C7_Witness ==
    /\ last.op = "contains_leaf" /\ held.some
    /\ Len(leaves[1]) = 5
    /\ leaves[1][5] = last.leaf_hash
    /\ held.index = 1
    /\ Len(held.proof) = 3

\* C8: a proof returned by contains_leaf no longer verifies against the
\* root obtained after add_leaves appended at least one item.
C8_StaleAfterAppend ==
    (last.op = "verify" /\ HeldStale /\ LastArgs = SameArgs) => ~last.result

\* C8 (amended): such a proof verifies against the new root exactly when the
\* append left the padded sequence as it was: every appended digest equals
\* the previous last leaf and the new count is at most the old padded length.
C8_StaleUnlessPaddingUnchanged ==
    (last.op = "verify" /\ HeldStale /\ LastArgs = SameArgs) =>
       LET lvs == leaves[held.t]
       IN  last.result <=>
              /\ \A j \in (held.count + 1)..Len(lvs) : lvs[j] = lvs[held.count]
              /\ Len(lvs) <= NextPow2(held.count)

C8_Witness ==
    /\ last.op = "verify" /\ HeldStale /\ LastArgs = SameArgs
    /\ held.count = 3 /\ Len(leaves[1]) = 4
    /\ ~last.result

\* C9: get_root, count_leaves, contains_leaf and verify leave the Leaf Store
\* as it is, and a get_root that follows another with no add_leaves between
\* returns the same digest.
C9_ReadersChangeNothing ==
    [][/\ last'.op \in {"get_root", "count_leaves", "contains_leaf", "verify"} =>
            /\ leaves' = leaves
            /\ built' = built
       /\ (last'.op = "get_root" /\ root[last'.t] # NoDigest) =>
            root'[last'.t] = root[last'.t]]_vars

C9_Witness ==
    /\ last.op = "contains_leaf" /\ held.some
    /\ root[1] # NoDigest
    /\ Len(leaves[1]) = 3
    /\ Len(resize_leaves(leaves[1])) = 4

\* C10: no call on a reachable tree aborts: in every tree that build_from or
\* add_leaves leaves behind, resize_leaves sees a non-empty vector, every
\* level has a power-of-two length, and at every level of generate_proof
\* the index and its sibling are inside the level.
C10_NoPanic ==
    /\ ~panicked
    /\ last.op # "panic"
    /\ \A t \in TreeIds :
          (built[t] /\ last.op \in {"build_from", "add_leaves"}) =>
             LET resized == resize_leaves(leaves[t])
             IN  /\ ~resize_leaves_panics(leaves[t])
                 /\ IsPow2(Len(resized))
                 /\ ~calculate_root_panics(resized)
                 /\ \A i \in 0..(Len(leaves[t]) - 1) :
                       /\ ~generate_proof_panics(i, resized)
                       /\ PathInBounds(i, resized)

C10_Witness ==
    /\ last.op = "contains_leaf" /\ held.some
    /\ ~panicked
    /\ Len(leaves[1]) = 5 /\ held.index = 4

=============================================================================
